---- MODULE Spec2Model ----
(***************************************************************************)
(* RandomUnderSampler._sample                                              *)
(* (imblearn/under_sampling/prototype_selection/random_under_sampler.py).  *)
(*                                                                         *)
(* The state is one sampler object (its constructor parameters and the     *)
(* fitted sampling_target_), the data set (X, y) it is called on, the      *)
(* random sources check_random_state can hand out, and the record of the   *)
(* latest call of _sample.  Row indices are 0-based as in the source; TLA+ *)
(* sequences are 1-based, so row i of an array a is a[i+1].                *)
(***************************************************************************)
EXTENDS Integers, Sequences, FiniteSets

\* ------------------------------------------------------------------ bounds
MaxN == 4           \* rows of the data set: 1..MaxN
MaxTarget == 2      \* target counts in sampling_target_: 0..MaxTarget
MaxCalls == 2       \* calls of _sample on the one sampler object
MaxGenPos == 2      \* the persistent generator is used again while it has
                    \* produced fewer outputs than this

\* ------------------------------------------------------------ input domains
Classes == {0, 1}             \* label values
Features == {7}               \* feature value of a row (one column)

\* The feature matrices tried for n rows: all rows distinct, or all rows equal.
FeatureMatrices(n) ==
    {[i \in 1..n |-> 10 * i]} \cup {[i \in 1..n |-> f] : f \in Features}

Seeds == {42}                 \* integer random_state values

\* random_state as given to __init__: an int seed, a RandomState instance or
\* None (the global np.random generator).
RandomStateParams ==
    {[kind |-> "int", seed |-> s] : s \in Seeds}
        \cup {[kind |-> "instance", seed |-> 0], [kind |-> "None", seed |-> 0]}

VARIABLES
    X,                 \* feature rows, Len(X) = Len(y)
    y,                 \* labels
    sampling_target_,  \* function: targeted class -> number of samples
    replacement,       \* self.replacement
    return_indices,    \* self.return_indices
    random_state,      \* self.random_state (the parameter, not a generator)
    seeded_stream,     \* outputs of RandomState(seed) observed so far
    gen_pos,           \* draws consumed from the RandomState instance / global
    n_calls,           \* finished calls of _sample
    last_call,         \* the record of the latest call (NoCall before it)
    same_as_prev       \* did the latest call do what the call before it did

vars == <<X, y, sampling_target_, replacement, return_indices, random_state,
          seeded_stream, gen_pos, n_calls, last_call, same_as_prev>>

NoCall == [status |-> "none", ret |-> <<>>, idx_under |-> <<>>,
           idx_dtype |-> "int", drawn |-> [c \in Classes |-> <<>>], ndraws |-> 0]

\* --------------------------------------------------------------- numpy bits
RECURSIVE SortedSeq(_)
SortedSeq(S) ==
    IF S = {} THEN <<>>
    ELSE LET m == CHOOSE m \in S : \A z \in S : m <= z
         IN  <<m>> \o SortedSeq(S \ {m})

\* np.unique(y): the distinct labels, ascending.
Unique(yy) == SortedSeq({yy[i] : i \in 1..Len(yy)})

\* np.flatnonzero(y == target_class): 0-based positions, ascending.
Flatnonzero(yy, c) ==
    SelectSeq([i \in 1..Len(yy) |-> i - 1], LAMBDA j : yy[j + 1] = c)

\* np.count_nonzero(y == target_class)
CountNonzero(yy, c) == Cardinality({i \in 1..Len(yy) : yy[i] = c})

\* safe_indexing(a, idx): the rows of a at the positions idx, in idx order.
safe_indexing(a, idx) == [i \in 1..Len(idx) |-> a[idx[i] + 1]]

\* a[index] for an integer index array (fancy indexing).
Take(a, index) == [i \in 1..Len(index) |-> a[index[i] + 1]]

\* -------------------------------------------------------- the random source
\* A generator is [known, pos]: `known` is the prefix of its output stream
\* that has been observed, `pos` how many outputs it has produced.  An output
\* beyond the known prefix can be any value of the requested range; an output
\* inside it is the recorded one (RandomState(seed) is a function of seed).

\* check_random_state(self.random_state): an int seeds a new generator, a
\* RandomState instance or None gives the one persistent generator, whose
\* future output is not known.
\* Mutant of check_random_state: the seed is not used, every call gets a
\* generator whose output is not tied to the seed.
check_random_state_unseeded(rs) == [known |-> <<>>, pos |-> 0]

check_random_state(rs) ==
    IF rs.kind = "int" THEN [known |-> seeded_stream, pos |-> 0]
    ELSE [known |-> <<>>, pos |-> 0]

\* One bounded draw in 0..b-1: the set of possible [val, g].  A range of one
\* value (b = 1) is answered with 0 without touching the generator.
Draw(g, b) ==
    IF b = 1 THEN {[val |-> 0, g |-> g]}
    ELSE IF g.pos < Len(g.known)
    THEN {[val |-> g.known[g.pos + 1] % b, g |-> [g EXCEPT !.pos = @ + 1]]}
    ELSE {[val |-> v, g |-> [known |-> Append(g.known, v), pos |-> g.pos + 1]]
            : v \in 0..(b - 1)}

\* randint(0, k, size=n): n bounded draws, in order (none consumes the
\* generator when k = 1).
RECURSIVE Randint(_, _, _)
Randint(g, k, n) ==
    IF n = 0 THEN {[vals |-> <<>>, g |-> g]}
    ELSE UNION {{[vals |-> <<d.val>> \o r.vals, g |-> r.g]
                    : r \in Randint(d.g, k, n - 1)} : d \in Draw(g, k)}

Swap(a, i, j) == [a EXCEPT ![i + 1] = a[j + 1], ![j + 1] = a[i + 1]]

\* shuffle: for i = k-1 down to 1, j = draw in 0..i, swap a[i] and a[j].
RECURSIVE Shuffle(_, _, _)
Shuffle(g, a, i) ==
    IF i < 1 THEN {[vals |-> a, g |-> g]}
    ELSE UNION {Shuffle(d.g, Swap(a, i, d.val), i - 1) : d \in Draw(g, i + 1)}

\* permutation(k) = shuffle(arange(k))
Permutation(g, k) == Shuffle(g, [i \in 1..k |-> i - 1], k - 1)

\* choice raising ValueError (an empty population, or a draw without
\* replacement of more than the population): nothing is drawn.
ChoiceTooLarge(g) == {[status |-> "ValueError", vals |-> <<>>, g |-> g]}

Min(a, b) == IF a <= b THEN a ELSE b

\* Mutant of Choice: the size is silently clamped to the population.
ChoiceClamped(g, k, n, replace) ==
    IF replace
    THEN {[status |-> "ok", vals |-> r.vals, g |-> r.g]
             : r \in Randint(g, k, Min(n, k))}
    ELSE {[status |-> "ok", vals |-> SubSeq(r.vals, 1, Min(n, k)), g |-> r.g]
             : r \in Permutation(g, k)}

\* Mutant of Choice: an over-large request without replacement is served
\* with the whole population instead of failing.
ChoiceNoError(g, k, n, replace) ==
    IF replace
    THEN {[status |-> "ok", vals |-> r.vals, g |-> r.g] : r \in Randint(g, k, n)}
    ELSE {[status |-> "ok", vals |-> SubSeq(r.vals, 1, Min(n, k)), g |-> r.g]
             : r \in Permutation(g, k)}

\* Mutant of Choice: the replace flag is ignored, every draw is independent.
ChoiceAlwaysReplace(g, k, n, replace) ==
    IF ~replace /\ n > k
    THEN ChoiceTooLarge(g)
    ELSE {[status |-> "ok", vals |-> r.vals, g |-> r.g] : r \in Randint(g, k, n)}

\* random_state.choice(range(k), size=n, replace=replace)
Choice(g, k, n, replace) ==
    IF k = 0
    THEN ChoiceTooLarge(g)
    ELSE IF replace
    THEN {[status |-> "ok", vals |-> r.vals, g |-> r.g] : r \in Randint(g, k, n)}
    ELSE IF n > k
         THEN ChoiceTooLarge(g)
         ELSE {[status |-> "ok", vals |-> SubSeq(r.vals, 1, n), g |-> r.g]
                  : r \in Permutation(g, k)}

\* ------------------------------------------------------------------ _sample
\* Is target_class a key of self.sampling_target_ ?
IsTargeted(c) == c \in DOMAIN sampling_target_

\* The index block one class contributes, given what choice returned
\* (targeted) -- np.flatnonzero(y == target_class)[index_target_class].
TargetedBlock(yy, c, index_target_class) ==
    Take(Flatnonzero(yy, c), index_target_class)

\* Mutant of UntargetedBlock: the last row of the class is dropped.
UntargetedBlockShort(yy, c) ==
    SubSeq(Flatnonzero(yy, c), 1, Len(Flatnonzero(yy, c)) - 1)

\* index_target_class = slice(None): the whole class, unchanged.
UntargetedBlock(yy, c) == Flatnonzero(yy, c)

\* Mutant of UntargetedStep: a draw is made for an untargeted class too.
UntargetedStepDrawing(st, c) ==
    [idx_under |-> st.idx_under \o UntargetedBlock(y, c),
     g |-> (CHOOSE d \in Draw(st.g, CountNonzero(y, c)) : TRUE).g,
     drawn |-> st.drawn]

\* The loop body for a class that is no key of sampling_target_.
UntargetedStep(st, c) ==
    [st EXCEPT !.idx_under = @ \o UntargetedBlock(y, c)]

\* Mutant of LoopClasses: the classes in order of first appearance in y.
RECURSIVE FirstSeen(_, _)
FirstSeen(yy, seen) ==
    IF yy = <<>> THEN <<>>
    ELSE IF Head(yy) \in seen THEN FirstSeen(Tail(yy), seen)
    ELSE <<Head(yy)>> \o FirstSeen(Tail(yy), seen \cup {Head(yy)})

LoopClassesFirstSeen(yy) == FirstSeen(yy, {})

\* Mutant of LoopClasses: the keys of sampling_target_ are visited as well.
LoopClassesWithKeys(yy) ==
    SortedSeq({yy[i] : i \in 1..Len(yy)} \cup DOMAIN sampling_target_)

\* The classes the loop visits, in order.
LoopClasses(yy) == Unique(yy)

\* The for loop from its i-th class on.  st = [idx_under, g, drawn]; the
\* result is the set of possible [status, idx_under, g, drawn] at loop exit
\* (or at the exception).  drawn[c] is what choice returned for class c.
RECURSIVE Loop(_, _, _)
Loop(cls, i, st) ==
    IF i > Len(cls) THEN {[status |-> "ok", idx_under |-> st.idx_under,
                           g |-> st.g, drawn |-> st.drawn]}
    ELSE LET c == cls[i] IN
         IF IsTargeted(c)
         THEN UNION {
                IF ch.status # "ok"
                THEN {[status |-> ch.status, idx_under |-> st.idx_under,
                       g |-> ch.g, drawn |-> st.drawn]}
                ELSE Loop(cls, i + 1,
                          [idx_under |-> st.idx_under \o TargetedBlock(y, c, ch.vals),
                           g |-> ch.g,
                           drawn |-> [st.drawn EXCEPT ![c] = ch.vals]])
                : ch \in Choice(st.g, CountNonzero(y, c), sampling_target_[c],
                                replacement)}
         ELSE Loop(cls, i + 1, UntargetedStep(st, c))

\* Mutant of ReturnValue: return_indices is not looked at.
ReturnValueNoIndices(idx_under) ==
    <<safe_indexing(X, idx_under), safe_indexing(y, idx_under)>>

\* The value _sample returns.
ReturnValue(idx_under) ==
    IF return_indices
    THEN <<safe_indexing(X, idx_under), safe_indexing(y, idx_under), idx_under>>
    ELSE <<safe_indexing(X, idx_under), safe_indexing(y, idx_under)>>

\* One call of _sample(X, y): the record of what it did.
CallRecord(out) ==
    [status    |-> out.status,
     ret       |-> IF out.status = "ok" THEN ReturnValue(out.idx_under) ELSE <<>>,
     idx_under |-> out.idx_under,
     idx_dtype |-> "int",
     drawn     |-> out.drawn,
     ndraws    |-> out.g.pos]

Sample ==
    /\ n_calls < MaxCalls
    /\ gen_pos < MaxGenPos
    /\ \E out \in Loop(LoopClasses(y), 1,
                       [idx_under |-> <<>>,
                        g |-> check_random_state(random_state),
                        drawn |-> [c \in Classes |-> <<>>]]) :
          /\ n_calls' = n_calls + 1
          /\ last_call' = CallRecord(out)
          /\ same_as_prev' = (n_calls = 0 \/ CallRecord(out) = last_call)
          /\ IF random_state.kind = "int"
             THEN /\ seeded_stream' = out.g.known
                  /\ gen_pos' = gen_pos
             ELSE /\ seeded_stream' = seeded_stream
                  /\ gen_pos' = gen_pos + out.g.pos
    /\ UNCHANGED <<X, y, sampling_target_, replacement, return_indices,
                   random_state>>

Init ==
    /\ \E n \in 1..MaxN :
          /\ y \in [1..n -> Classes]
          /\ X \in FeatureMatrices(n)
    /\ sampling_target_ \in
          UNION {[D -> 0..MaxTarget] : D \in SUBSET Classes}
    /\ replacement \in BOOLEAN
    /\ return_indices \in BOOLEAN
    /\ random_state \in RandomStateParams
    /\ seeded_stream = <<>>
    /\ gen_pos = 0
    /\ n_calls = 0
    /\ last_call = NoCall
    /\ same_as_prev = TRUE

Next == Sample

Spec == Init /\ [][Next]_vars

\* ------------------------------------------------------ claims' vocabulary
Called == n_calls > 0
Ok == last_call.status = "ok"
N == Len(y)
Rows(c) == {i \in 1..N : y[i] = c}                \* 1-based rows of class c
Present == {c \in Classes : Rows(c) # {}}
Targeted == DOMAIN sampling_target_
idx == last_call.idx_under
y_out == safe_indexing(y, idx)
\* The positions of the index selection that select a row of class c.
Block(c) == {p \in 1..Len(idx) : y[idx[p] + 1] = c}
\* Number of output rows class c must have.
Expected(c) ==
    IF c \in Targeted THEN sampling_target_[c] ELSE Cardinality(Rows(c))
RECURSIVE SumExpected(_)
SumExpected(S) ==
    IF S = {} THEN 0
    ELSE LET c == CHOOSE c \in S : TRUE
         IN  Expected(c) + SumExpected(S \ {c})
\* Some present class is asked for more rows than it has.
OverRequested ==
    \E c \in Present \cap Targeted : sampling_target_[c] > Cardinality(Rows(c))
\* The index selection restricted to class c, in selection order.
BlockSeq(c) == SelectSeq(idx, LAMBDA j : y[j + 1] = c)

\* C1: after a successful call the output features and labels have the same
\* length, every present class c has T[c] output rows when targeted and its
\* original count otherwise, and the output length is the sum of these.
C1_OutputCounts ==
    (Called /\ Ok) =>
        /\ Len(last_call.ret[1]) = Len(last_call.ret[2])
        /\ \A c \in Present :
              Cardinality({p \in 1..Len(last_call.ret[2]) :
                             last_call.ret[2][p] = c}) = Expected(c)
        /\ Len(last_call.ret[2]) = SumExpected(Present)

C1_Witness ==
    /\ Called /\ Ok /\ replacement
    /\ Present = Classes
    /\ \E c \in Present \cap Targeted :
          sampling_target_[c] > Cardinality(Rows(c))
    /\ Present \ Targeted # {}

\* C2: after a successful call with replacement = False the index selection
\* holds no index twice and every index lies in 0..N-1.
C2_NoDuplicates ==
    (Called /\ Ok /\ ~replacement) =>
        /\ \A p \in 1..Len(idx) : idx[p] \in 0..(N - 1)
        /\ \A p, q \in 1..Len(idx) : p # q => idx[p] # idx[q]

C2_Witness ==
    /\ Called /\ Ok /\ ~replacement
    /\ \E c \in Present \cap Targeted :
          sampling_target_[c] >= 2 /\ last_call.ndraws >= 1
    /\ Len(idx) = N

\* C3: after a successful call every row of a present class that is no key
\* of the target mapping is selected exactly once, and these rows appear in
\* ascending original order.
C3_Passthrough ==
    (Called /\ Ok) =>
        \A c \in Present \ Targeted :
            /\ \A i \in Rows(c) :
                  Cardinality({p \in 1..Len(idx) : idx[p] = i - 1}) = 1
            /\ \A p, q \in Block(c) : p < q => idx[p] < idx[q]

C3_Witness ==
    /\ Called /\ Ok
    /\ \E c \in Present \ Targeted : Cardinality(Rows(c)) >= 2
    /\ \E c \in Present \cap Targeted :
          /\ Cardinality(Rows(c)) >= 2
          /\ sampling_target_[c] >= 1
          /\ last_call.drawn[c][1] = 1
    /\ last_call.ndraws >= 1
    /\ y[1] # y[2]

\* C4: with replacement = False, a target count above the size of a present
\* class makes the call fail (the ValueError of choice, the spec's
\* SamplingError) and return nothing, also when an earlier class was drawn.
C4_OverRequestFails ==
    (Called /\ ~replacement /\ OverRequested) =>
        /\ last_call.status = "ValueError"
        /\ last_call.ret = <<>>

C4_Witness ==
    /\ Called /\ ~replacement
    /\ 0 \in Present \cap Targeted /\ 1 \in Present \cap Targeted
    /\ sampling_target_[0] >= 1
    /\ sampling_target_[0] <= Cardinality(Rows(0))
    /\ sampling_target_[1] > Cardinality(Rows(1))
    /\ last_call.ndraws >= 1
    /\ last_call.status = "ValueError"

\* C5 as stated: a key of the target mapping for a class without samples
\* makes the call fail.
C5_AbsentKeyFails ==
    (Called /\ Targeted \ Present # {}) => last_call.status # "ok"

\* C5 amended: a key of the target mapping for a class without samples is
\* ignored: the call fails exactly when replacement is False and a present
\* class is over-requested, and a successful call returns no row of the
\* absent class and as many rows as the present classes account for.
C5_AbsentKeyIgnored ==
    (Called /\ Targeted \ Present # {}) =>
        /\ Ok <=> ~(~replacement /\ OverRequested)
        /\ Ok => /\ \A p \in 1..Len(last_call.ret[2]) :
                       last_call.ret[2][p] \in Present
                 /\ Len(last_call.ret[2]) = SumExpected(Present)

C5_Witness ==
    /\ Called /\ Ok /\ ~replacement
    /\ \E c \in Targeted \ Present : sampling_target_[c] >= 1
    /\ Len(last_call.ret[2]) = N

\* C6: with an integer seed, a call of the sampler returns and selects
\* exactly what the call before it did (same data, same configuration).
C6_Deterministic ==
    (random_state.kind = "int" /\ n_calls >= 2) => same_as_prev

C6_Witness ==
    /\ random_state.kind = "int" /\ n_calls >= 2 /\ same_as_prev
    /\ Ok /\ last_call.ndraws >= 2
    /\ X[1] # X[N]

\* C7: the result is a 3-tuple when return_indices is set and a 2-tuple
\* otherwise; the returned index selection is as long as the output and
\* output row i is input row idx[i], for the features and for the labels.
C7_IndicesParallel ==
    (Called /\ Ok) =>
        /\ Len(last_call.ret) = IF return_indices THEN 3 ELSE 2
        /\ return_indices =>
              /\ Len(last_call.ret[3]) = Len(last_call.ret[1])
              /\ Len(last_call.ret[3]) = Len(last_call.ret[2])
              /\ \A p \in 1..Len(last_call.ret[3]) :
                    /\ last_call.ret[1][p] = X[last_call.ret[3][p] + 1]
                    /\ last_call.ret[2][p] = y[last_call.ret[3][p] + 1]

C7_Witness ==
    /\ Called /\ Ok /\ return_indices
    /\ X[1] # X[N]
    /\ Len(last_call.ret[3]) >= 2
    /\ last_call.ret[3][1] > last_call.ret[3][2]

\* C8 as documented: with return_indices the third returned value has one
\* boolean per input sample.
C8_MaskPerSample ==
    (Called /\ Ok /\ return_indices) =>
        /\ Len(last_call.ret[3]) = N
        /\ last_call.idx_dtype = "bool"

\* C9: the output labels are non-decreasing (one block per class, ascending
\* label); the block of an untargeted class is in original row order and the
\* block of a targeted class is in the order choice drew it.
C9_BlockOrder ==
    (Called /\ Ok) =>
        /\ \A p, q \in 1..Len(y_out) : p < q => y_out[p] <= y_out[q]
        /\ \A c \in Present \ Targeted :
              \A p, q \in Block(c) : p < q => idx[p] < idx[q]
        /\ \A c \in Present \cap Targeted :
              /\ Len(BlockSeq(c)) = Len(last_call.drawn[c])
              /\ \A p \in 1..Len(BlockSeq(c)) :
                    \* BlockSeq(c)[p] is the (drawn[c][p])-th row of class c
                    /\ BlockSeq(c)[p] + 1 \in Rows(c)
                    /\ Cardinality({i \in Rows(c) : i < BlockSeq(c)[p] + 1})
                          = last_call.drawn[c][p]

C9_Witness ==
    /\ Called /\ Ok
    /\ N >= 3 /\ y[1] = 1 /\ y[2] = 0 /\ y[N] = 1
    /\ 1 \in Targeted /\ ~(0 \in Targeted)
    /\ Len(idx) = 3 /\ idx[2] > idx[3]

\* C10: a call changes neither the data nor the sampler's parameters nor its
\* target mapping; it advances the persistent random source by exactly the
\* draws it made, and when no present class is targeted it makes no draw and
\* leaves the random source as it was.
C10_Frame ==
    [][ /\ X' = X /\ y' = y /\ sampling_target_' = sampling_target_
        /\ replacement' = replacement /\ return_indices' = return_indices
        /\ random_state' = random_state
        /\ random_state.kind # "int" => gen_pos' = gen_pos + last_call'.ndraws
        /\ random_state.kind = "int" => gen_pos' = gen_pos
        /\ (Present \cap Targeted = {}) =>
              /\ last_call'.ndraws = 0
              /\ gen_pos' = gen_pos
              /\ seeded_stream' = seeded_stream ]_vars

C10_Witness ==
    /\ Called /\ Ok
    /\ Present \cap Targeted = {} /\ Targeted # {}
    /\ random_state.kind = "instance"
    /\ gen_pos = 0 /\ n_calls = 2

====
